---- MODULE Spec2Model ----
(***************************************************************************)
(* Model of src/App.js: the App component (React Native).                  *)
(*                                                                         *)
(* State of the mounted component instance: messages, carNumber, image     *)
(* (useState, lines 23-25) and the WebSocket held in ws.current (line 27). *)
(* App can be unmounted and mounted again; every mount starts from the     *)
(* initial state and opens a new WebSocket.                                *)
(* Every handler runs to its first await as one step; the continuation of  *)
(* a fetch is a second step taken when the response (or the network        *)
(* failure) is delivered.  A handler reads the state of the latest render. *)
(* Strings are sequences of one-character strings.                         *)
(*                                                                         *)
(* After an unmount the variables keep the last state of the instance      *)
(* until the next mount replaces it.  The variables alert and sent hold    *)
(* what the last step gave to Alert.alert and to fetch.                    *)
(***************************************************************************)
EXTENDS Integers, Sequences, FiniteSets, Bags, TLC

VARIABLES
    mounted,      \* TRUE while the App instance is mounted
    ws,           \* readyState of ws.current, the WebSocket of the latest mount
    oldSockets,   \* readyStates of the WebSockets created by earlier mounts
    messages,     \* useState([])   line 23
    carNumber,    \* useState('')   line 24
    image,        \* useState(null) line 25
    pending,      \* bag of the fetch calls awaited and not yet settled
    alert,        \* output: the Alert.alert raised by the last step, or NoAlert
    sent,         \* output: the request the last step handed to fetch, or NoRequest
    uncaught,     \* output: TRUE when an exception escaped the handler of the last step
    delivered,    \* history: payloads decoded from frames of the current channel
    deliveredAll  \* history: bag of the payloads decoded from frames of every channel so far

vars == <<mounted, ws, oldSockets, messages, carNumber, image, pending,
          alert, sent, uncaught, delivered, deliveredAll>>

\* ---- bounds ----
MaxDeliveries == 2
MaxInflight == 2
MaxTextLen == 10

\* ---- values ----
NULL == "null"
NoAlert == <<>>
NoFile == "none"
NoRequest == [kind |-> "none", file |-> NoFile, has_car_number |-> FALSE, car_number |-> <<>>]

Min(a, b) == IF a < b THEN a ELSE b

Letters == <<"A", "B", "C", "D", "E", "F", "G", "H", "I", "J", "K", "L">>

\* Texts the TextInput can hand to onChangeText: empty, shorter than eight
\* characters, and longer than eight (paste).
TextLens == {0, 4, MaxTextLen}
Texts == {SubSeq(Letters, 1, n) : n \in TextLens}

\* Local image handles returned by the picker or the camera.
Uris == {"file1", "file2"}

\* Payloads the service pushes.  The second one carries the older
\* timestamp, so arrival order and timestamp order differ.
Payloads ==
    { [message |-> "m1", timestamp |-> 2, client_id |-> "server"],
      [message |-> "m2", timestamp |-> 1, client_id |-> "other"] }

\* Frames on the channel: the JSON text of a payload, or text that is not JSON.
Frames == {[json |-> TRUE, value |-> p] : p \in Payloads} \cup {[json |-> FALSE]}

\* Outcomes of a fetch: rejected promise, non-2xx status, 2xx with a body
\* that is not JSON, 2xx with a JSON body.
Responses == {"NetworkError", "Non2xx", "OkBadBody", "OkJson"}

\* ---- pure helpers ----

\* String.prototype.slice(start, end) for 0 <= start, 0 <= end.
slice(text, start, end) ==
    SubSeq(text, Min(start, Len(text)) + 1, Min(end, Len(text)))

\* JSON.parse(event.data): the decoded value, or a thrown SyntaxError.
JSONparse(frame) ==
    IF frame.json THEN [threw |-> FALSE, value |-> frame.value]
                  ELSE [threw |-> TRUE]

\* The component state a handler sees and updates.
State == [messages |-> messages, carNumber |-> carNumber, image |-> image]

\* useState initial values, lines 23-25.
InitialState == [messages |-> <<>>, carNumber |-> <<>>, image |-> NULL]

\* ---- handlers as functions of the component state ----

\* Variants of onmessage with a plausible slip: the entry put in front, the
\* previous entries dropped, the entry appended twice.
onmessage_prepend(event, st) ==
    IF JSONparse(event).threw
    THEN st
    ELSE [st EXCEPT !.messages = <<JSONparse(event).value>> \o st.messages]

onmessage_replace(event, st) ==
    IF JSONparse(event).threw
    THEN st
    ELSE [st EXCEPT !.messages = <<JSONparse(event).value>>]

onmessage_twice(event, st) ==
    IF JSONparse(event).threw
    THEN st
    ELSE [st EXCEPT !.messages = st.messages \o <<JSONparse(event).value, JSONparse(event).value>>]

\* Variant of onmessage that also resets the text field.
onmessage_resetsInput(event, st) ==
    IF JSONparse(event).threw
    THEN st
    ELSE [st EXCEPT !.messages = Append(st.messages, JSONparse(event).value),
                    !.carNumber = <<>>]

\* ws.current.onmessage, lines 53-56.  When JSON.parse throws, the handler
\* ends before setMessages and the state is as before.
onmessage(event, st) ==
    IF JSONparse(event).threw
    THEN st
    ELSE [st EXCEPT !.messages = Append(st.messages, JSONparse(event).value)]

\* Variant of onChangeText that stores the text as typed.
onChangeText_uncut(text, st) == [st EXCEPT !.carNumber = text]

\* onChangeText of the TextInput, line 247.
onChangeText(text, st) == [st EXCEPT !.carNumber = slice(text, 0, 8)]

\* Results of pickImage / takePhoto as seen by the handler: permission not
\* granted, picker cancelled, picker threw, or the uri of the asset.
CaptureResults == {"denied", "canceled", "threw"} \cup Uris

\* Variant of captureSettled that drops the staged image when no asset
\* comes back.
captureSettled_clears(result, st) ==
    IF result \in Uris THEN [st EXCEPT !.image = result] ELSE [st EXCEPT !.image = NULL]

\* pickImage lines 74-98 and takePhoto lines 100-123: state after the handler.
captureSettled(result, st) ==
    IF result \in Uris THEN [st EXCEPT !.image = result] ELSE st

pickImageAlert(result) ==
    CASE result = "denied" -> <<"Permission Required", "Please grant media library permission to pick images">>
      [] result = "threw"  -> <<"Error", "Failed to pick image. Please try again.">>
      [] OTHER             -> NoAlert

takePhotoAlert(result) ==
    CASE result = "denied" -> <<"Permission Required", "Please grant camera permission to take photos">>
      [] result = "threw"  -> <<"Error", "Failed to take photo. Please try again.">>
      [] OTHER             -> NoAlert

\* Variant of the validation that lets every call through.
uploadImageValid_always(st) == TRUE

\* uploadImage line 126: the validation that precedes the request.
uploadImageValid(st) == st.image # NULL

\* uploadImage lines 132-148: the multipart request.  car_number is
\* appended only when carNumber is not empty.
uploadImageRequest(st) ==
    [kind |-> "upload-image", file |-> st.image,
     has_car_number |-> st.carNumber # <<>>, car_number |-> st.carNumber]

\* uploadImage lines 150-154: the paths that throw into the catch block.
uploadImageThrows(resp) == resp \in {"NetworkError", "Non2xx", "OkBadBody"}

\* Variants of uploadImageSettled: success also clears the identifier; the
\* image is cleared whatever the outcome (as in a finally block).
uploadImageSettled_clearsBoth(resp, st) ==
    IF uploadImageThrows(resp) THEN st
    ELSE [st EXCEPT !.image = NULL, !.carNumber = <<>>]

uploadImageSettled_finally(resp, st) == [st EXCEPT !.image = NULL]

\* uploadImage lines 154-161: state after the response is handled.
uploadImageSettled(resp, st) ==
    IF uploadImageThrows(resp) THEN st ELSE [st EXCEPT !.image = NULL]

\* Variant of uploadImageAlert in which the failure alert is raised on every
\* path, as from a finally block: a success is followed by a failure alert.
uploadImageAlert_both(resp) ==
    IF uploadImageThrows(resp)
    THEN <<"Error", "Failed to upload image. Please try again.">>
    ELSE <<"Success", "Image uploaded successfully",
           "Error", "Failed to upload image. Please try again.">>

uploadImageAlert(resp) ==
    IF uploadImageThrows(resp)
    THEN <<"Error", "Failed to upload image. Please try again.">>
    ELSE <<"Success", "Image uploaded successfully">>

\* Variant of the validation that lets every call through.
sendCarNumberValid_always(st) == TRUE

\* sendCarNumber line 165.
sendCarNumberValid(st) == st.carNumber # <<>>

\* sendCarNumber lines 171-181: the JSON request.
sendCarNumberRequest(st) ==
    [kind |-> "messages", file |-> NoFile,
     has_car_number |-> TRUE, car_number |-> st.carNumber]

\* sendCarNumber lines 183-185: the body of the response is never read.
sendCarNumberThrows(resp) == resp \in {"NetworkError", "Non2xx"}

\* Variant of sendCarNumberSettled that also appends a local entry for the
\* submission to the feed.
sendCarNumberSettled_echo(resp, st) ==
    IF sendCarNumberThrows(resp) THEN st
    ELSE [st EXCEPT !.carNumber = <<>>,
                    !.messages = Append(st.messages,
                        [message |-> "Car number submitted", timestamp |-> 0,
                         client_id |-> "self"])]

\* sendCarNumber lines 187-192: state after the response is handled.
sendCarNumberSettled(resp, st) ==
    IF sendCarNumberThrows(resp) THEN st ELSE [st EXCEPT !.carNumber = <<>>]

sendCarNumberAlert(resp) ==
    IF sendCarNumberThrows(resp)
    THEN <<"Error", "Failed to send car number. Please try again.">>
    ELSE <<"Success", "Car number sent successfully">>

\* What the continuation after "await fetch" holds: the handler it belongs
\* to, whether the instance whose setters it calls is mounted, and the
\* staged value it submitted.
Awaiting(req) ==
    [kind |-> req.kind, live |-> TRUE,
     value |-> IF req.kind = "upload-image" THEN <<req.file>> ELSE req.car_number]

\* The continuations of an instance once it is unmounted: each still runs
\* its handler and raises its alert, and its setters do nothing (they
\* change nothing of a later instance), so only the handler is kept.
Orphan(req) == [kind |-> req.kind, live |-> FALSE, value |-> <<>>]

Orphaned(bag) ==
    LET orphans == {Orphan(r) : r \in BagToSet(bag)}
        Same(o) == {r \in BagToSet(bag) : Orphan(r) = o}
    IN  [o \in orphans |->
            BagCardinality([r \in Same(o) |-> bag[r]])]

\* Variant of renderMessage keyed by the timestamp of the entry.
renderMessage_byTimestamp(msg, index) == [key |-> msg.timestamp, msg |-> msg]

\* renderMessage, lines 195-221: the element built for one entry.
renderMessage(msg, index) == [key |-> index, msg |-> msg]

\* line 239: messages.map((msg, index) => renderMessage(msg, index)).
Rendered == [i \in 1..Len(messages) |-> renderMessage(messages[i], i - 1)]

\* lines 257-261: the upload button exists only while an image is staged.
uploadButtonRendered == image # NULL

\* ---- steps ----

\* The setters of useState: the next render sees st.
SetState(st) ==
    /\ messages' = st.messages
    /\ carNumber' = st.carNumber
    /\ image' = st.image

\* Alerts of the permission request made at mount, lines 31-44.
MountAlerts ==
    { NoAlert,
      <<"Permission Required", "Camera and media library permissions are required to use this app.">>,
      <<"Error", "Failed to request permissions">> }

Init ==
    /\ mounted = TRUE
    /\ ws = "CONNECTING"
    /\ oldSockets = {}
    /\ messages = InitialState.messages
    /\ carNumber = InitialState.carNumber
    /\ image = InitialState.image
    /\ pending = EmptyBag
    /\ alert \in MountAlerts
    /\ sent = NoRequest
    /\ uncaught = FALSE
    /\ delivered = <<>>
    /\ deliveredAll = EmptyBag

\* A new App instance is mounted: fresh state (lines 23-25) and the effect
\* of lines 29-72 opens a new WebSocket.
Mount ==
    /\ ~mounted
    /\ mounted' = TRUE
    /\ oldSockets' = oldSockets \cup {ws}
    /\ ws' = "CONNECTING"
    /\ SetState(InitialState)
    /\ alert' \in MountAlerts
    /\ delivered' = <<>>
    /\ sent' = NoRequest
    /\ uncaught' = FALSE
    /\ UNCHANGED <<pending, deliveredAll>>

ReadyStates == {"CONNECTING", "OPEN", "CLOSED"}

wsClose_keep(readyState) == readyState

\* ws.current.close(), line 69: the socket leaves CONNECTING or OPEN; on a
\* socket that is already closed the call does nothing.  The CLOSING phase
\* is folded into CLOSED: in neither is the socket open or connecting.
wsClose(readyState) ==
    IF readyState \in {"CONNECTING", "OPEN"} THEN "CLOSED" ELSE readyState

\* The cleanup of the effect, lines 67-71: ws.current.close().
Unmount ==
    /\ mounted
    /\ mounted' = FALSE
    /\ ws' = wsClose(ws)
    /\ alert' = NoAlert
    /\ sent' = NoRequest
    /\ uncaught' = FALSE
    /\ pending' = Orphaned(pending)
    /\ UNCHANGED <<oldSockets, messages, carNumber, image, delivered, deliveredAll>>

\* ws.current.onopen, lines 49-51.
onopen ==
    /\ mounted
    /\ ws = "CONNECTING"
    /\ ws' = "OPEN"
    /\ alert' = NoAlert
    /\ sent' = NoRequest
    /\ uncaught' = FALSE
    /\ UNCHANGED <<mounted, oldSockets, messages, carNumber, image, pending, delivered, deliveredAll>>

\* Variant of DeliverFrame in which the exception of an undecodable frame
\* takes the channel down.
DeliverFrame_fatal(event) ==
    /\ mounted
    /\ ws = "OPEN"
    /\ BagCardinality(deliveredAll) < MaxDeliveries
    /\ SetState(onmessage(event, State))
    /\ IF event.json
       THEN /\ delivered' = Append(delivered, event.value)
            /\ deliveredAll' = deliveredAll (+) SetToBag({event.value})
       ELSE UNCHANGED <<delivered, deliveredAll>>
    /\ ws' = IF JSONparse(event).threw THEN "CLOSED" ELSE ws
    /\ alert' = NoAlert
    /\ sent' = NoRequest
    /\ uncaught' = JSONparse(event).threw
    /\ UNCHANGED <<mounted, oldSockets, pending>>

\* The frame event arrives on the open channel: ws.current.onmessage,
\* lines 53-56.  A SyntaxError thrown by JSON.parse leaves the handler
\* uncaught: nothing is set and nothing is alerted.
DeliverFrame(event) ==
    /\ mounted
    /\ ws = "OPEN"
    /\ BagCardinality(deliveredAll) < MaxDeliveries
    /\ SetState(onmessage(event, State))
    /\ IF event.json
       THEN /\ delivered' = Append(delivered, event.value)
            /\ deliveredAll' = deliveredAll (+) SetToBag({event.value})
       ELSE UNCHANGED <<delivered, deliveredAll>>
    /\ alert' = NoAlert
    /\ sent' = NoRequest
    /\ uncaught' = JSONparse(event).threw
    /\ UNCHANGED <<mounted, ws, oldSockets, pending>>

Deliver == \E event \in Frames : DeliverFrame(event)

\* Transport failure: ws.current.onerror, lines 58-61, followed by the
\* close of the socket (onclose, lines 63-65, only logs).
onerror ==
    /\ mounted
    /\ ws \in {"CONNECTING", "OPEN"}
    /\ ws' = "CLOSED"
    /\ alert' = <<"Connection Error", "Failed to connect to server">>
    /\ sent' = NoRequest
    /\ uncaught' = FALSE
    /\ UNCHANGED <<mounted, oldSockets, messages, carNumber, image, pending, delivered, deliveredAll>>

\* The service closes the channel: ws.current.onclose, lines 63-65.
onclose ==
    /\ mounted
    /\ ws = "OPEN"
    /\ ws' = "CLOSED"
    /\ alert' = NoAlert
    /\ sent' = NoRequest
    /\ uncaught' = FALSE
    /\ UNCHANGED <<mounted, oldSockets, messages, carNumber, image, pending, delivered, deliveredAll>>

\* The user edits the text field, lines 243-249.
stageIdentifier ==
    /\ mounted
    /\ \E text \in Texts :
        /\ SetState(onChangeText(text, State))
    /\ alert' = NoAlert
    /\ sent' = NoRequest
    /\ uncaught' = FALSE
    /\ UNCHANGED <<mounted, ws, oldSockets, pending, delivered, deliveredAll>>

\* pickImage, lines 74-98, when the permission check and the picker end
\* in result.
pickImageResult(result) ==
    /\ mounted
    /\ SetState(captureSettled(result, State))
    /\ alert' = pickImageAlert(result)
    /\ sent' = NoRequest
    /\ uncaught' = FALSE
    /\ UNCHANGED <<mounted, ws, oldSockets, pending, delivered, deliveredAll>>

pickImage == \E result \in CaptureResults : pickImageResult(result)

\* takePhoto, lines 100-123, when the permission check and the camera end
\* in result.
takePhotoResult(result) ==
    /\ mounted
    /\ SetState(captureSettled(result, State))
    /\ alert' = takePhotoAlert(result)
    /\ sent' = NoRequest
    /\ uncaught' = FALSE
    /\ UNCHANGED <<mounted, ws, oldSockets, pending, delivered, deliveredAll>>

takePhoto == \E result \in CaptureResults : takePhotoResult(result)

\* uploadImage up to the fetch, lines 125-148.
uploadImage ==
    /\ mounted
    /\ IF uploadImageValid(State)
       THEN /\ BagCardinality(pending) < MaxInflight
            /\ pending' = pending (+) SetToBag({Awaiting(uploadImageRequest(State))})
            /\ sent' = uploadImageRequest(State)
            /\ alert' = NoAlert
       ELSE /\ pending' = pending
            /\ sent' = NoRequest
            /\ alert' = <<"Error", "Please select an image first">>
    /\ uncaught' = FALSE
    /\ UNCHANGED <<mounted, ws, oldSockets, messages, carNumber, image, delivered, deliveredAll>>

\* The upload button is pressed, lines 257-261.
PressUpload == uploadButtonRendered /\ uploadImage

\* sendCarNumber up to the fetch, lines 164-181 (the send button, line 262).
sendCarNumber ==
    /\ mounted
    /\ IF sendCarNumberValid(State)
       THEN /\ BagCardinality(pending) < MaxInflight
            /\ pending' = pending (+) SetToBag({Awaiting(sendCarNumberRequest(State))})
            /\ sent' = sendCarNumberRequest(State)
            /\ alert' = NoAlert
       ELSE /\ pending' = pending
            /\ sent' = NoRequest
            /\ alert' = <<"Error", "Please enter a car number">>
    /\ uncaught' = FALSE
    /\ UNCHANGED <<mounted, ws, oldSockets, messages, carNumber, image, delivered, deliveredAll>>


\* Variant of the settling that fetches again when the upload failed.
uploadImageSettles_retry(req, resp) ==
    /\ req \in BagToSet(pending)
    /\ req.kind = "upload-image"
    /\ pending' = IF uploadImageThrows(resp) THEN pending ELSE pending (-) SetToBag({req})
    /\ IF req.live
       THEN SetState(uploadImageSettled(resp, State))
       ELSE UNCHANGED <<messages, carNumber, image>>
    /\ alert' = uploadImageAlert(resp)
    /\ sent' = IF uploadImageThrows(resp)
               THEN [NoRequest EXCEPT !.kind = "upload-image"]
               ELSE NoRequest
    /\ uncaught' = FALSE
    /\ UNCHANGED <<mounted, ws, oldSockets, delivered, deliveredAll>>

\* The fetch awaited by req settles with resp: uploadImage, lines 150-161.
uploadImageSettles(req, resp) ==
    /\ req \in BagToSet(pending)
    /\ req.kind = "upload-image"
    /\ pending' = pending (-) SetToBag({req})
    /\ IF req.live
       THEN SetState(uploadImageSettled(resp, State))
       ELSE UNCHANGED <<messages, carNumber, image>>
    /\ alert' = uploadImageAlert(resp)
    /\ sent' = NoRequest
    /\ uncaught' = FALSE
    /\ UNCHANGED <<mounted, ws, oldSockets, delivered, deliveredAll>>

uploadImageResponse ==
    \E req \in BagToSet(pending), resp \in Responses : uploadImageSettles(req, resp)

\* The fetch awaited by req settles with resp: sendCarNumber, lines 183-192.
sendCarNumberSettles(req, resp) ==
    /\ req \in BagToSet(pending)
    /\ req.kind = "messages"
    /\ pending' = pending (-) SetToBag({req})
    /\ IF req.live
       THEN SetState(sendCarNumberSettled(resp, State))
       ELSE UNCHANGED <<messages, carNumber, image>>
    /\ alert' = sendCarNumberAlert(resp)
    /\ sent' = NoRequest
    /\ uncaught' = FALSE
    /\ UNCHANGED <<mounted, ws, oldSockets, delivered, deliveredAll>>

sendCarNumberResponse ==
    \E req \in BagToSet(pending), resp \in Responses : sendCarNumberSettles(req, resp)

\* What can happen other than a call of uploadImage.
Step ==
    \/ Mount
    \/ Unmount
    \/ pickImage
    \/ takePhoto
    \/ onopen
    \/ Deliver
    \/ onerror
    \/ onclose
    \/ stageIdentifier
    \/ sendCarNumber
    \/ uploadImageResponse
    \/ sendCarNumberResponse

\* The application driven through the rendered interface.
Next ==
    \/ Step
    \/ PressUpload

Spec == Init /\ [][Next]_vars

\* The same with uploadImage called as a function, whether or not the
\* button that calls it is rendered.
NextCalls ==
    \/ Step
    \/ uploadImage

SpecCalls == Init /\ [][NextCalls]_vars

\* The continuations that can be awaiting a fetch: those of uploadImage and
\* sendCarNumber in the mounted instance, and those left by an unmounted one.
Continuations ==
    {Awaiting(uploadImageRequest([InitialState EXCEPT !.image = uri])) : uri \in Uris}
        \cup {Awaiting(sendCarNumberRequest(onChangeText(text, InitialState))) :
                 text \in Texts \ {<<>>}}
        \cup {Orphan([kind |-> kind]) : kind \in {"upload-image", "messages"}}

\* The fetch awaited by the continuation c settles, with any outcome.
Settles(c) ==
    \E resp \in Responses : uploadImageSettles(c, resp) \/ sendCarNumberSettles(c, resp)

\* Every fetch settles: its promise is resolved with a response or rejected
\* with a network error, lines 145 and 171.
SpecFair == Spec /\ \A c \in Continuations : WF_vars(Settles(c))

TypeOK ==
    /\ mounted \in BOOLEAN
    /\ ws \in ReadyStates
    /\ image \in Uris \cup {NULL}
    /\ uncaught \in BOOLEAN
    /\ BagCardinality(pending) <= MaxInflight

\* ---- properties ----

IsPrefix(a, b) == Len(a) <= Len(b) /\ SubSeq(b, 1, Len(a)) = a

\* Number of entries of seq equal to x.
Count(seq, x) == Cardinality({i \in DOMAIN seq : seq[i] = x})

\* The first n characters of text, all of it when it is shorter.
FirstChars(text, n) == [i \in 1..(IF Len(text) < n THEN Len(text) ELSE n) |-> text[i]]

\* A step that mounts a new instance: its feed and staged values are new.
IsMount == ~mounted /\ mounted'

FirstInstance == mounted /\ oldSockets = {}

\* C1: the feed is exactly the payloads decoded from the frames delivered on
\* the channel, in delivery order, whatever their timestamps.
C1_FeedIsDeliveries == messages = delivered

\* Two entries whose timestamps run against their arrival order.
C1_Witness ==
    /\ Len(messages) = 2
    /\ messages[1].timestamp > messages[2].timestamp

\* C2: append-only feed: every step of an instance leaves the feed as it
\* was or adds entries at its end (a mount creates the feed of a new
\* instance, which is a new feed).
C2_AppendOnly == [][~IsMount => IsPrefix(messages, messages')]_vars

\* A request completed while the feed held two entries.
C2_Witness ==
    /\ Len(messages) = 2
    /\ alert = uploadImageAlert("OkJson")

\* C3: the keys of the rendered entries are strictly increasing in
\* insertion order (hence unique), and the key of an entry stays the same
\* for as long as its instance lives.
C3_KeysIncreasing ==
    \A i, j \in DOMAIN Rendered : i < j => Rendered[i].key < Rendered[j].key

C3_KeysStable ==
    ~IsMount =>
        \A i \in DOMAIN Rendered :
            /\ i \in DOMAIN Rendered'
            /\ Rendered'[i] = Rendered[i]

C3_SequenceKeys == [](C3_KeysIncreasing) /\ [][C3_KeysStable]_vars

C3_Witness ==
    /\ Len(Rendered) = 2
    /\ Rendered[1].msg.timestamp > Rendered[2].msg.timestamp
    /\ Rendered[1].key < Rendered[2].key

\* C4: onChangeText stores the first 8 characters of the text (all of it
\* when shorter); carNumber never has more than 8 characters, nor has the
\* car_number of a request sent or awaited.
C4_IdentifierAtMost8 ==
    /\ \A text \in Texts : onChangeText(text, State).carNumber = FirstChars(text, 8)
    /\ Len(carNumber) <= 8
    /\ Len(sent.car_number) <= 8
    /\ \A req \in BagToSet(pending) : req.kind = "messages" => Len(req.value) <= 8

\* A text longer than 8 characters was typed, cut and sent.
C4_Witness ==
    /\ Len(carNumber) = 8
    /\ carNumber = SubSeq(Letters, 1, 8)
    /\ sent.kind = "messages"
    /\ Len(sent.car_number) = 8

\* C5: uploadImage called with no image staged raises the validation alert,
\* sends no request and leaves image, carNumber and the feed as they were.
C5_UploadValidation ==
    [][(uploadImage /\ image = NULL) =>
          /\ alert' = <<"Error", "Please select an image first">>
          /\ sent' = NoRequest
          /\ pending' = pending
          /\ image' = image
          /\ carNumber' = carNumber
          /\ messages' = messages]_vars

C5_Witness ==
    /\ alert = <<"Error", "Please select an image first">>
    /\ image = NULL
    /\ carNumber # <<>>

\* C6: sendCarNumber called with an empty carNumber raises the validation
\* alert, sends no request and leaves image, carNumber and the feed as
\* they were.
C6_SendValidation ==
    [][(sendCarNumber /\ carNumber = <<>>) =>
          /\ alert' = <<"Error", "Please enter a car number">>
          /\ sent' = NoRequest
          /\ pending' = pending
          /\ image' = image
          /\ carNumber' = carNumber
          /\ messages' = messages]_vars

C6_Witness ==
    /\ alert = <<"Error", "Please enter a car number">>
    /\ carNumber = <<>>
    /\ image # NULL

\* C7: when the upload awaited by a mounted instance completes with a 2xx
\* response and a decodable body, image is cleared and carNumber is as
\* before; no completion of an upload changes carNumber.
C7_UploadAckClearsImageOnly ==
    [][\A req \in BagToSet(pending) :
          /\ uploadImageSettles(req, "OkJson") =>
                /\ carNumber' = carNumber
                /\ req.live => image' = NULL
          /\ \A resp \in Responses :
                uploadImageSettles(req, resp) => carNumber' = carNumber]_vars

C7_Witness ==
    /\ FirstInstance
    /\ alert = <<"Success", "Image uploaded successfully">>
    /\ image = NULL
    /\ carNumber # <<>>

\* C8: when an upload or an identifier submission fails (network failure,
\* non-2xx response, or for the upload a body that cannot be decoded),
\* image and carNumber are as before the failure was delivered.
C8_FailureKeepsStaged ==
    [][\A req \in BagToSet(pending) :
          /\ \A resp \in {"NetworkError", "Non2xx", "OkBadBody"} :
                uploadImageSettles(req, resp) =>
                    /\ image' = image
                    /\ carNumber' = carNumber
                    /\ alert' = <<"Error", "Failed to upload image. Please try again.">>
          /\ \A resp \in {"NetworkError", "Non2xx"} :
                sendCarNumberSettles(req, resp) =>
                    /\ image' = image
                    /\ carNumber' = carNumber
                    /\ alert' = <<"Error", "Failed to send car number. Please try again.">>]_vars

C8_Witness ==
    /\ FirstInstance
    /\ alert = <<"Error", "Failed to send car number. Please try again.">>
    /\ carNumber # <<>>
    /\ image # NULL

\* C9 as claimed: after one push event and then a successful submission of
\* the identifier, the feed holds two entries, the pushed one first.
C9_Original ==
    [][\A req \in BagToSet(pending) :
          (/\ sendCarNumberSettles(req, "OkJson")
           /\ req.live
           /\ Len(messages) = 1)
          => /\ Len(messages') = 2
             /\ messages'[1] = messages[1]]_vars

\* C9 as amended: a successful submission of the identifier adds no entry:
\* the feed is the same before and after, so the pushed entry stays first
\* and alone until the service pushes another one.
C9_SubmissionAddsNoEntry ==
    [][\A req \in BagToSet(pending) : \A resp \in {"OkJson", "OkBadBody"} :
          sendCarNumberSettles(req, resp) => messages' = messages]_vars

C9_Witness ==
    /\ FirstInstance
    /\ alert = <<"Success", "Car number sent successfully">>
    /\ Len(messages) = 1
    /\ carNumber = <<>>

\* C10 as claimed: across open, close and re-open, the feed holds each
\* payload as many times as it was delivered.
C10_Original ==
    \A p \in Payloads : Count(messages, p) = CopiesIn(p, deliveredAll)

\* C10 as amended: the feed never holds a payload more often than it was
\* delivered, and holds it exactly as often as it was delivered on the
\* channel of the instance that owns the feed (each mount starts with an
\* empty feed).
C10_NoDuplicates ==
    \A p \in Payloads :
        /\ Count(messages, p) <= CopiesIn(p, deliveredAll)
        /\ Count(messages, p) = Count(delivered, p)

\* After a close and a re-open: one payload delivered before, one after.
C10_Witness ==
    /\ mounted
    /\ oldSockets # {}
    /\ ws = "OPEN"
    /\ Len(messages) = 1
    /\ BagCardinality(deliveredAll) = 2
    /\ CopiesIn(messages[1], deliveredAll) = 1

\* The outcomes of a fetch that end in the catch block of each handler.
UploadFailures == {"NetworkError", "Non2xx", "OkBadBody"}
SendFailures == {"NetworkError", "Non2xx"}

\* C11: every error raises a notification: a failed validation, a failed
\* action, a transport failure of the channel, and a frame that cannot be
\* decoded.
C11_EveryErrorNotified ==
    [][/\ (uploadImage /\ image = NULL) => alert' # NoAlert
       /\ (sendCarNumber /\ carNumber = <<>>) => alert' # NoAlert
       /\ \A req \in BagToSet(pending) :
            /\ \A resp \in UploadFailures :
                 uploadImageSettles(req, resp) => alert' # NoAlert
            /\ \A resp \in SendFailures :
                 sendCarNumberSettles(req, resp) => alert' # NoAlert
       /\ onerror => alert' # NoAlert
       /\ \A event \in Frames :
            (DeliverFrame(event) /\ ~event.json) => alert' # NoAlert]_vars

\* The channels of the client that are open or connecting: the socket of
\* the mounted instance and those of the instances unmounted before it.
OpenChannels ==
    Cardinality({s \in oldSockets : s \in {"CONNECTING", "OPEN"}})
        + (IF ws \in {"CONNECTING", "OPEN"} THEN 1 ELSE 0)

\* C12: at most one channel is open or connecting; a new mount finds every
\* earlier socket closed; after the cleanup no socket is open; and closing
\* a closed socket again leaves it closed.
C12_OneChannel ==
    /\ OpenChannels <= 1
    /\ \A s \in oldSockets : s = "CLOSED"
    /\ ~mounted => OpenChannels = 0
    /\ \A s \in ReadyStates :
         /\ wsClose(s) = "CLOSED"
         /\ wsClose(wsClose(s)) = wsClose(s)

\* A second instance has its channel open after the first was unmounted.
C12_Witness ==
    /\ mounted
    /\ oldSockets = {"CLOSED"}
    /\ ws = "OPEN"

\* C13: a call of uploadImage or sendCarNumber hands exactly one request to
\* fetch when its validation passes and none when it fails; no other step
\* sends a request, in particular not the step in which a fetch settles,
\* whatever its outcome.
C13_OneRequestPerCall ==
    [][/\ uploadImage =>
            IF uploadImageValid(State)
            THEN /\ sent' = uploadImageRequest(State)
                 /\ BagCardinality(pending') = BagCardinality(pending) + 1
            ELSE /\ sent' = NoRequest
                 /\ pending' = pending
       /\ sendCarNumber =>
            IF sendCarNumberValid(State)
            THEN /\ sent' = sendCarNumberRequest(State)
                 /\ BagCardinality(pending') = BagCardinality(pending) + 1
            ELSE /\ sent' = NoRequest
                 /\ pending' = pending
       /\ ~(uploadImage \/ sendCarNumber) =>
            /\ sent' = NoRequest
            /\ BagCardinality(pending') <= BagCardinality(pending)
       /\ \A req \in BagToSet(pending), resp \in Responses :
            (uploadImageSettles(req, resp) \/ sendCarNumberSettles(req, resp)) =>
                /\ sent' = NoRequest
                /\ BagCardinality(pending') = BagCardinality(pending) - 1]_vars

\* An upload has failed: the image is still staged, nothing was sent again
\* and no fetch is awaited.
C13_Witness ==
    /\ alert = <<"Error", "Failed to upload image. Please try again.">>
    /\ image # NULL
    /\ sent = NoRequest
    /\ pending = EmptyBag

\* C14 as stated: when the permission is denied or the user cancels the
\* picker or the camera, image and carNumber are unchanged and an alert is
\* raised.
C14_Original ==
    [][\A result \in {"denied", "canceled"} :
          (pickImageResult(result) \/ takePhotoResult(result)) =>
              /\ image' = image
              /\ carNumber' = carNumber
              /\ alert' # NoAlert]_vars

\* C14: when the permission is denied, image and carNumber are unchanged and
\* the alert "Permission Required" is raised; when the user cancels the
\* picker or the camera, image and carNumber are unchanged and no alert is
\* raised.
C14_DeniedAlertsCancelSilent ==
    [][/\ pickImageResult("denied") =>
            /\ image' = image
            /\ carNumber' = carNumber
            /\ alert' = <<"Permission Required", "Please grant media library permission to pick images">>
       /\ takePhotoResult("denied") =>
            /\ image' = image
            /\ carNumber' = carNumber
            /\ alert' = <<"Permission Required", "Please grant camera permission to take photos">>
       /\ (pickImageResult("canceled") \/ takePhotoResult("canceled")) =>
            /\ image' = image
            /\ carNumber' = carNumber
            /\ alert' = NoAlert]_vars

\* The camera permission was denied while an image and an identifier were
\* staged.
C14_Witness ==
    /\ alert = <<"Permission Required", "Please grant camera permission to take photos">>
    /\ image # NULL
    /\ carNumber # <<>>

\* A step in which something fails without closing the channel: a failed
\* validation, a fetch that settles in the catch block, a frame that cannot
\* be decoded, a picker or camera that is denied or throws.
FailureStep ==
    \/ uploadImage /\ ~uploadImageValid(State)
    \/ sendCarNumber /\ ~sendCarNumberValid(State)
    \/ \E req \in BagToSet(pending) :
         \/ \E resp \in UploadFailures : uploadImageSettles(req, resp)
         \/ \E resp \in SendFailures : sendCarNumberSettles(req, resp)
    \/ DeliverFrame([json |-> FALSE])
    \/ \E result \in {"denied", "threw"} :
         pickImageResult(result) \/ takePhotoResult(result)

\* The mounted client is usable: on the open channel every decodable frame
\* can be delivered and is appended to messages, and the handlers that
\* stage and submit can run.
Usable ==
    /\ (ws = "OPEN" /\ BagCardinality(deliveredAll) < MaxDeliveries) =>
         \A p \in Payloads :
            ENABLED (/\ DeliverFrame([json |-> TRUE, value |-> p])
                     /\ messages' = Append(messages, p))
    /\ ENABLED pickImage
    /\ ENABLED takePhoto
    /\ ENABLED stageIdentifier
    /\ BagCardinality(pending) < MaxInflight =>
         /\ ENABLED uploadImage
         /\ ENABLED sendCarNumber

\* C15: a failing step neither unmounts the client nor changes the state of
\* its channel, and the mounted client is always usable, so also after any
\* failing step.
C15_FailureLeavesClientUsable ==
    /\ [](mounted => Usable)
    /\ [][FailureStep => (mounted' = mounted /\ ws' = ws)]_vars

\* An undecodable frame has just been delivered and the channel is open.
C15_Witness ==
    /\ mounted
    /\ uncaught
    /\ ws = "OPEN"
    /\ BagCardinality(deliveredAll) < MaxDeliveries
    /\ image # NULL

\* C16: a delivered frame changes at most messages and leaves image and
\* carNumber as they were; picking, typing, submitting and the settling of
\* a submission leave messages as it was.
C16_SingleWriter ==
    [][/\ Deliver =>
            /\ image' = image
            /\ carNumber' = carNumber
       /\ (\/ pickImage \/ takePhoto \/ stageIdentifier
           \/ uploadImage \/ sendCarNumber
           \/ uploadImageResponse \/ sendCarNumberResponse) =>
            messages' = messages]_vars

\* An identifier was submitted with success while the feed had entries and
\* an image was staged: the feed and the image are still there.
C16_Witness ==
    /\ alert = <<"Success", "Car number sent successfully">>
    /\ Len(messages) = MaxDeliveries
    /\ messages = delivered
    /\ image # NULL
    /\ carNumber = <<>>

\* C17: when a submission settles with success in the instance that made
\* it and the value staged by then is not the one that was submitted, the
\* staged value stays: a new image picked, or a new identifier typed, while
\* the earlier submission was awaited is still staged afterwards.
C17_ClearsOnlySubmitted ==
    [][\A req \in BagToSet(pending), resp \in Responses :
          /\ (/\ uploadImageSettles(req, resp)
              /\ ~uploadImageThrows(resp)
              /\ req.live
              /\ image # NULL
              /\ req.value # <<image>>) => image' = image
          /\ (/\ sendCarNumberSettles(req, resp)
              /\ ~sendCarNumberThrows(resp)
              /\ req.live
              /\ carNumber # <<>>
              /\ req.value # carNumber) => carNumber' = carNumber]_vars

\* C18: while the upload of the staged image is awaited, pressing the upload
\* button again sends no request.
C18_NoSecondRequest ==
    [][(/\ PressUpload
        /\ \E req \in BagToSet(pending) :
              /\ req.kind = "upload-image"
              /\ req.live
              /\ req.value = <<image>>) => sent' = NoRequest]_vars

UploadAlerts ==
    { <<"Success", "Image uploaded successfully">>,
      <<"Error", "Failed to upload image. Please try again.">> }

SendAlerts ==
    { <<"Success", "Car number sent successfully">>,
      <<"Error", "Failed to send car number. Please try again.">> }

\* A call of uploadImage or sendCarNumber either fails its validation and
\* raises the validation alert at once, or raises nothing and leaves one
\* continuation awaiting its fetch; the step in which that fetch settles
\* ends the continuation and raises one alert, the success alert when the
\* handler did not throw and the failure alert when it did.
OneOutcomePerCall ==
    /\ uploadImage =>
         IF uploadImageValid(State)
         THEN /\ alert' = NoAlert
              /\ pending' = pending (+) SetToBag({Awaiting(uploadImageRequest(State))})
         ELSE /\ alert' = <<"Error", "Please select an image first">>
              /\ pending' = pending
    /\ sendCarNumber =>
         IF sendCarNumberValid(State)
         THEN /\ alert' = NoAlert
              /\ pending' = pending (+) SetToBag({Awaiting(sendCarNumberRequest(State))})
         ELSE /\ alert' = <<"Error", "Please enter a car number">>
              /\ pending' = pending
    /\ \A req \in BagToSet(pending), resp \in Responses :
         /\ uploadImageSettles(req, resp) =>
              /\ CopiesIn(req, pending') = CopiesIn(req, pending) - 1
              /\ alert' \in UploadAlerts
              /\ alert'[1] = "Success" <=> resp = "OkJson"
         /\ sendCarNumberSettles(req, resp) =>
              /\ CopiesIn(req, pending') = CopiesIn(req, pending) - 1
              /\ alert' \in SendAlerts
              /\ alert'[1] = "Success" <=> resp \in {"OkJson", "OkBadBody"}

\* C19: every call of uploadImage or sendCarNumber reaches one outcome and
\* raises one alert for it, never a success and a failure; and, every fetch
\* being settled, no continuation is awaited forever: again and again either
\* none like it is awaited or one like it settles.
C19_OneTerminalOutcome ==
    /\ [][OneOutcomePerCall]_vars
    /\ [](BagToSet(pending) \subseteq Continuations)
    /\ \A c \in Continuations :
         \/ []<>(CopiesIn(c, pending) = 0)
         \/ []<><<Settles(c)>>_vars

\* The only awaited fetch, an upload, has settled with success.
C19_Witness ==
    /\ mounted
    /\ alert = <<"Success", "Image uploaded successfully">>
    /\ image = NULL
    /\ pending = EmptyBag
    /\ sent = NoRequest

====
